---- MODULE Spec2Model ----
(***************************************************************************)
(* Model of the compliance checker: the grade normaliser                   *)
(* (complianceGrader.py), and the session controller with its two memories *)
(* (controller.py, chatbot.py).                                            *)
(*                                                                         *)
(* Conventions.                                                            *)
(*   - Python's None is Null (the empty tuple); a value x that may be None *)
(*     is held as <<x>>.                                                   *)
(*   - A function that may raise returns [error, value]: error is "none"   *)
(*     and value is <<result>>, or error names the exception and value is  *)
(*     Null.                                                               *)
(*   - A policy_id is a sequence of tokens; the separator ":" is a token   *)
(*     of its own and no other token contains it, so "fda:0" is            *)
(*     <<"fda", ":", "0">> and "fda0" is <<"fda0">>.                       *)
(*   - A float score is the exact rational [num, den] in lowest terms.     *)
(***************************************************************************)
EXTENDS Integers, Sequences, FiniteSets, TLC

VARIABLES
    chat_history,   \* controller.chat_history: sequence of [role, content]
    state,          \* controller.state: product, last_compliance, previous_compliance
    policies,       \* controller.policies: Null or <<tables>>
    appended,       \* history variable: every message ever passed to add_message
    checks,         \* history variable: the result of every successful check
    lastCall,       \* history variable: the last controller call and how it ended
    comparison_text,\* history variable: Null, or <<the comparison the last chat built>>
    raw,            \* the response handed to structure_compliance_grade
    graded,         \* Null, or <<what structure_compliance_grade made of raw>>
    tables,         \* the policies handed to build_compliance_prompt
    payload,        \* Null, or <<what build_compliance_prompt made of tables>>
    pair,           \* the two results handed to compare_compliance
    comparison      \* Null, or <<what compare_compliance made of pair>>

vars == <<chat_history, state, policies, appended, checks, lastCall, comparison_text,
          raw, graded, tables, payload, pair, comparison>>

sessionVars == <<chat_history, state, policies, appended, checks, lastCall, comparison_text>>

gradeVars == <<raw, graded>>

promptVars == <<tables, payload>>

compareVars == <<pair, comparison>>

pureVars == <<gradeVars, promptVars, compareVars>>

Null == <<>>

Ok(v) == [error |-> "none", value |-> <<v>>]

Raise(e) == [error |-> e, value |-> Null]

(***************************************************************************)
(* Bounds of the model.                                                    *)
(***************************************************************************)
MaxEvals == 2

MaxAppended == 4

WarmUp == 9

MaxMemAppended == 12

MaxRows == 2

(***************************************************************************)
(* Arithmetic helpers.                                                     *)
(***************************************************************************)
RECURSIVE Gcd(_, _)
Gcd(a, b) == IF b = 0 THEN a ELSE Gcd(b, a % b)

\* the rational n/d (n >= 0, d > 0) in lowest terms
Rat(n, d) == LET g == Gcd(n, d) IN [num |-> n \div g, den |-> d \div g]

RECURSIVE SumGrades(_)
SumGrades(s) == IF s = <<>> THEN 0 ELSE Head(s) + SumGrades(Tail(s))

RECURSIVE MaxGrade(_)
MaxGrade(s) ==
    IF Len(s) = 1 THEN s[1]
    ELSE LET m == MaxGrade(Tail(s)) IN IF Head(s) >= m THEN Head(s) ELSE m

\* df[mask]: the rows whose mask entry is true, in the frame's order
RECURSIVE SelectRows(_, _)
SelectRows(df, mask) ==
    IF Len(df) = 0 THEN <<>>
    ELSE LET n == Len(df)
             front == SelectRows(SubSeq(df, 1, n - 1), mask)
         IN  IF mask[n] THEN Append(front, df[n]) ELSE front

GradesOf(rows) == [i \in 1..Len(rows) |-> rows[i].grade.v]

(***************************************************************************)
(* complianceGrader.py: structure_compliance_grade                         *)
(***************************************************************************)
ignoreScore == 90

matchScore == 50

threshold == 70

\* str.split(":")[0]: the tokens before the first separator
RECURSIVE SplitFirst(_)
SplitFirst(id) ==
    IF id = <<>> \/ Head(id) = ":" THEN <<>>
    ELSE <<Head(id)>> \o SplitFirst(Tail(id))

\* df["type"] = df["policy_id"].str.split(":").str[0]
DeriveType(evals) ==
    [i \in 1..Len(evals) |-> [evals[i] EXCEPT !.type = SplitFirst(evals[i].policy_id)]]

\* the mask of lines 297-303, for one row
passing_mask(row) ==
    /\ row.type # <<"approved">>
    /\ ~ ( /\ (row.type = <<"fda">> \/ row.type = <<"ftc">>)
           /\ row.grade.v >= ignoreScore )

\* sort_values(by="grade", ascending=True): on the short frames of this
\* model numpy's sort is an insertion sort, so equal grades keep their order
RECURSIVE InsertByGrade(_, _)
InsertByGrade(row, sorted) ==
    IF sorted = <<>> THEN <<row>>
    ELSE IF row.grade.v < Head(sorted).grade.v THEN <<row>> \o sorted
         ELSE <<Head(sorted)>> \o InsertByGrade(row, Tail(sorted))

RECURSIVE sort_values(_)
sort_values(rows) ==
    IF rows = <<>> THEN <<>>
    ELSE InsertByGrade(rows[Len(rows)], sort_values(SubSeq(rows, 1, Len(rows) - 1)))

IsApproved(row) == row.type = <<"approved">>

IsMatch(row) == row.grade.v >= matchScore

\* the maximum is taken over every row, not over the approved ones
approved_score_any_row(df) ==
    IF df # <<>> THEN MaxGrade(GradesOf(df)) ELSE 0

approved_score(df) ==
    LET approved_df == SelectRows(df, [i \in 1..Len(df) |-> IsApproved(df[i])])
    IN  IF approved_df # <<>> THEN MaxGrade(GradesOf(approved_df)) ELSE 0

\* a grade equal to the threshold counts as below it
compute_category_score_at_threshold(df, category) ==
    LET InCategory(row) == row.type = <<category>>
        Below(g) == g <= threshold
        scores == GradesOf(SelectRows(df, [i \in 1..Len(df) |-> InCategory(df[i])]))
        n == Len(scores)
        below == Cardinality({i \in 1..n : Below(scores[i])})
        num == SumGrades(scores) - 100 * below
    IN  IF n = 0 THEN Rat(0, 1)
        ELSE IF num <= 0 THEN Rat(0, 1)
        ELSE IF num >= 100 * n THEN Rat(100, 1)
        ELSE Rat(num, n)

compute_category_score(df, category) ==
    LET InCategory(row) == row.type = <<category>>
        Below(g) == g < threshold
        scores == GradesOf(SelectRows(df, [i \in 1..Len(df) |-> InCategory(df[i])]))
        n == Len(scores)
        below == Cardinality({i \in 1..n : Below(scores[i])})
        \* base - penalty = sum/n - 100*below/n
        num == SumGrades(scores) - 100 * below
    IN  IF n = 0 THEN Rat(0, 1)
        ELSE IF num <= 0 THEN Rat(0, 1)
        ELSE IF num >= 100 * n THEN Rat(100, 1)
        ELSE Rat(num, n)

structure_compliance_grade(response) ==
    IF ~response.has_evaluations THEN Raise("KeyError: evaluations")
    ELSE IF response.evaluations = <<>> THEN Raise("KeyError: policy_id")
    ELSE IF \E i \in 1..Len(response.evaluations) :
                response.evaluations[i].grade.t # "number"
         THEN Raise("TypeError: grade")
    ELSE LET df == DeriveType(response.evaluations)
             df_filtered == SelectRows(df, [i \in 1..Len(df) |-> passing_mask(df[i])])
             approved_df == SelectRows(df, [i \in 1..Len(df) |-> IsApproved(df[i])])
             approved_matches ==
                 SelectRows(approved_df,
                            [i \in 1..Len(approved_df) |-> IsMatch(approved_df[i])])
         IN  Ok([ scores |-> [ approved |-> approved_score(df),
                               fda |-> compute_category_score(df, "fda"),
                               ftc |-> compute_category_score(df, "ftc") ],
                  filtered_evaluations |-> sort_values(df_filtered),
                  approved_matches |-> approved_matches,
                  approved_match_summary |->
                      IF approved_matches # <<>>
                      THEN "Matched approved claims found."
                      ELSE "No matching approved claims.",
                  overall_summary |-> response.overall_summary ])

(***************************************************************************)
(* The responses the grading model may return.                             *)
(***************************************************************************)
Num(n) == [t |-> "number", v |-> n]

NotANumber == [t |-> "string", v |-> 0]

PolicyIds ==
    { <<"approved", ":", "0">>, <<"fda", ":", "0">>, <<"fda", ":", "1">>,
      <<"ftc", ":", "0">>, <<"fda0">>, <<"approved_claim", ":", "3">> }

GradeValues == { -5, 0, 40, 50, 69, 70, 89, 90, 95, 100, 150 }

Grades == { Num(g) : g \in GradeValues } \cup { NotANumber }

Item(id, g) == [policy_id |-> id, type |-> <<"fda">>, grade |-> g]

Items == { Item(id, g) : id \in PolicyIds, g \in Grades }

EvalLists == UNION { [1..n -> Items] : n \in 0..MaxEvals }

Response(evals) ==
    [has_evaluations |-> TRUE, evaluations |-> evals, overall_summary |-> "summary"]

NoEvaluations ==
    [has_evaluations |-> FALSE, evaluations |-> <<>>, overall_summary |-> "summary"]

Responses == { Response(e) : e \in EvalLists } \cup { NoEvaluations }

(***************************************************************************)
(* complianceGrader.py: the policy tables, the prompt, the grading call    *)
(***************************************************************************)
\* a cell pandas reads as missing
NaN == "NaN"

\* ./compliance_docs/: the products of main.py have a folder with the three
\* tables (a table is its first column), any other product has none
Products == {"ClareonPanOptix", "TOTAL30", "Unlisted"}

compliance_docs ==
    [ ClareonPanOptix |->
          [ approved |-> <<"restores vision", NaN, "proven lens">>,
            fda |-> <<"no cure claims">>,
            ftc |-> <<"substantiate claims">> ],
      TOTAL30 |->
          [ approved |-> <<"thirty days of comfort">>,
            fda |-> <<NaN, "state the wear schedule">>,
            ftc |-> <<>> ] ]

read_product_policy_files(product) ==
    IF product \notin DOMAIN compliance_docs
    THEN Raise("FileNotFoundError")
    ELSE Ok(compliance_docs[product])

\* the rows are numbered after the rows without text are dropped
RECURSIVE format_records_renumbered(_, _)
format_records_renumbered(df, df_type) ==
    IF Len(df) = 0 THEN <<>>
    ELSE LET n == Len(df)
             front == format_records_renumbered(SubSeq(df, 1, n - 1), df_type)
         IN  IF df[n] # NaN
             THEN Append(front, [ policy_id |-> <<df_type, ":", ToString(Len(front))>>,
                                  text |-> df[n] ])
             ELSE front

\* reset_index, policy_id = index, then one record per row whose text is
\* not missing
RECURSIVE format_records(_, _)
format_records(df, df_type) ==
    IF Len(df) = 0 THEN <<>>
    ELSE LET n == Len(df)
             front == format_records(SubSeq(df, 1, n - 1), df_type)
         IN  IF df[n] # NaN
             THEN Append(front, [ policy_id |-> <<df_type, ":", ToString(n - 1)>>,
                                  text |-> df[n] ])
             ELSE front

build_compliance_prompt(marketing_text, pol, strictness_) ==
    IF pol = Null THEN Raise("TypeError: NoneType is not subscriptable")
    ELSE Ok([ marketing_text |-> marketing_text,
              approved |-> format_records(pol[1].approved, "approved"),
              fda |-> format_records(pol[1].fda, "fda"),
              ftc |-> format_records(pol[1].ftc, "ftc"),
              strictness |-> strictness_ ])

\* the client raises, or returns text that (its code fences removed) parses
\* as JSON or does not
get_response_from_LLM(prompt, llm) ==
    IF llm.api # "ok" THEN Raise("APIError")
    ELSE IF llm.json # "valid" THEN Raise("JSONDecodeError")
    ELSE Ok(llm.doc)

(***************************************************************************)
(* chatbot.py: compare_compliance                                          *)
(***************************************************************************)
\* the characters of a token, as code points
CodePoints(token) ==
    CASE token = ":" -> <<58>>
      [] token = "0" -> <<48>>
      [] token = "1" -> <<49>>
      [] token = "2" -> <<50>>
      [] token = "3" -> <<51>>
      [] token = "10" -> <<49, 48>>
      [] token = "fda" -> <<102, 100, 97>>
      [] token = "ftc" -> <<102, 116, 99>>
      [] token = "fda0" -> <<102, 100, 97, 48>>
      [] token = "approved" -> <<97, 112, 112, 114, 111, 118, 101, 100>>
      [] token = "approved_claim" ->
             <<97, 112, 112, 114, 111, 118, 101, 100, 95, 99, 108, 97, 105, 109>>

RECURSIVE Chars(_)
Chars(id) == IF id = <<>> THEN <<>> ELSE CodePoints(Head(id)) \o Chars(Tail(id))

\* Python's < on two strings, given as code points
RECURSIVE CharsLess(_, _)
CharsLess(x, y) ==
    IF y = <<>> THEN FALSE
    ELSE IF x = <<>> THEN TRUE
    ELSE IF Head(x) # Head(y) THEN Head(x) < Head(y)
    ELSE CharsLess(Tail(x), Tail(y))

StrLess(id1, id2) == CharsLess(Chars(id1), Chars(id2))

\* sorted(ids): the least id first
RECURSIVE sorted(_)
sorted(ids) ==
    IF ids = {} THEN <<>>
    ELSE LET least == CHOOSE a \in ids : \A b \in ids \ {a} : StrLess(a, b)
         IN  <<least>> \o sorted(ids \ {least})

\* cat.upper()
Upper(cat) ==
    CASE cat = "approved" -> "APPROVED"
      [] cat = "fda" -> "FDA"
      [] cat = "ftc" -> "FTC"

\* scores.approved is an int, the category scores are fractions
AsRat(score_map, cat) ==
    IF cat = "approved" THEN [num |-> score_map.approved, den |-> 1] ELSE score_map[cat]

\* curr_scores[cat] - prev_scores[cat], as a fraction with a positive den
ScoreDiff(curr, prev) ==
    [num |-> curr.num * prev.den - prev.num * curr.den, den |-> curr.den * prev.den]

\* f"{diff:.1f}": the tenths of diff, a tie going to the even digit
Tenths(diff) ==
    LET mag == IF diff.num < 0 THEN 0 - diff.num ELSE diff.num
        q == (mag * 10) \div diff.den
        r == (mag * 10) % diff.den
        up == IF 2 * r > diff.den THEN q + 1
              ELSE IF 2 * r < diff.den THEN q
              ELSE IF q % 2 = 0 THEN q ELSE q + 1
    IN  IF diff.num < 0 THEN 0 - up ELSE up

\* one line of the comparison: what it says, about which category or ids
Line(kind, cat, tenths, ids) == [kind |-> kind, cat |-> cat, tenths |-> tenths, ids |-> ids]

FirstCheckText == <<Line("This is the first compliance check of the session.", "", 0, <<>>)>>

UnchangedText == <<Line("Compliance is unchanged.", "", 0, <<>>)>>

\* lines 88-94, for one category
\* a difference of exactly 5 counts as a change
ScoreLine_inclusive(prev_scores, curr_scores, cat) ==
    IF cat \in DOMAIN prev_scores /\ cat \in DOMAIN curr_scores
    THEN LET diff == ScoreDiff(AsRat(curr_scores, cat), AsRat(prev_scores, cat))
         IN  IF diff.num >= 5 * diff.den
             THEN <<Line("score improved", Upper(cat), Tenths(diff), <<>>)>>
             ELSE IF diff.num <= (0 - 5) * diff.den
             THEN <<Line("score decreased", Upper(cat), Tenths(diff), <<>>)>>
             ELSE <<>>
    ELSE <<>>

\* the decrease is tested against 5, not -5
ScoreLine_sign_slip(prev_scores, curr_scores, cat) ==
    IF cat \in DOMAIN prev_scores /\ cat \in DOMAIN curr_scores
    THEN LET diff == ScoreDiff(AsRat(curr_scores, cat), AsRat(prev_scores, cat))
         IN  IF diff.num > 5 * diff.den
             THEN <<Line("score improved", Upper(cat), Tenths(diff), <<>>)>>
             ELSE IF diff.num < 5 * diff.den
             THEN <<Line("score decreased", Upper(cat), Tenths(diff), <<>>)>>
             ELSE <<>>
    ELSE <<>>

ScoreLine(prev_scores, curr_scores, cat) ==
    IF cat \in DOMAIN prev_scores /\ cat \in DOMAIN curr_scores
    THEN LET diff == ScoreDiff(AsRat(curr_scores, cat), AsRat(prev_scores, cat))
         IN  IF diff.num > 5 * diff.den
             THEN <<Line("score improved", Upper(cat), Tenths(diff), <<>>)>>
             ELSE IF diff.num < (0 - 5) * diff.den
             THEN <<Line("score decreased", Upper(cat), Tenths(diff), <<>>)>>
             ELSE <<>>
    ELSE <<>>

\* the ids are read from the approved matches, not from the issue list
FailedIds_from_matches(result) ==
    { result.approved_matches[i].policy_id : i \in 1..Len(result.approved_matches) }

FailedIds(result) ==
    { result.filtered_evaluations[i].policy_id : i \in 1..Len(result.filtered_evaluations) }

compare_compliance(previous, current) ==
    IF previous = Null THEN Ok(FirstCheckText)
    ELSE IF current = Null THEN Raise("AttributeError: NoneType has no attribute get")
    ELSE LET prev_scores == previous[1].scores
             curr_scores == current[1].scores
             prev_failed == FailedIds(previous[1])
             curr_failed == FailedIds(current[1])
             added == curr_failed \ prev_failed
             removed == prev_failed \ curr_failed
             changes ==
                 ScoreLine(prev_scores, curr_scores, "approved")
                 \o ScoreLine(prev_scores, curr_scores, "fda")
                 \o ScoreLine(prev_scores, curr_scores, "ftc")
                 \o (IF added # {}
                     THEN <<Line("New compliance issues detected", "", 0, sorted(added))>>
                     ELSE <<>>)
                 \o (IF removed # {}
                     THEN <<Line("Issues resolved", "", 0, sorted(removed))>>
                     ELSE <<>>)
         IN  Ok(IF changes # <<>> THEN changes ELSE UnchangedText)

(***************************************************************************)
(* controller.py: ComplianceController                                     *)
(***************************************************************************)
strictness == 5

HistoryCap == 10

Message(role, content) == [role |-> role, content |-> content]

\* the eviction takes the newest entry: pop() for pop(0)
add_message_pops_newest(history, role, content) ==
    LET longer == Append(history, Message(role, content))
    IN  IF Len(longer) > HistoryCap THEN SubSeq(longer, 1, Len(longer) - 1) ELSE longer

add_message(history, role, content) ==
    LET longer == Append(history, Message(role, content))
    IN  IF Len(longer) > HistoryCap THEN Tail(longer) ELSE longer

Call(op, arg, outcome, llm_called) ==
    [op |-> op, arg |-> arg, outcome |-> outcome, llm_called |-> llm_called]

Construct ==
    /\ chat_history = <<>>
    /\ state = [product |-> Null, last_compliance |-> Null, previous_compliance |-> Null]
    /\ policies = Null
    /\ appended = <<>>
    /\ checks = <<>>
    /\ lastCall = Call("__init__", "", "ok", FALSE)
    /\ comparison_text = Null

\* a direct call of add_message
AddMessageCall(role, content) ==
    /\ chat_history' = add_message(chat_history, role, content)
    /\ appended' = Append(appended, Message(role, content))
    /\ lastCall' = Call("add_message", "", "ok", FALSE)
    /\ UNCHANGED <<state, policies, checks, comparison_text, pureVars>>

\* a new product starts a new comparison: the compliance results are reset
load_product_policies_resets(product) ==
    LET read == read_product_policy_files(product)
        said == <<"Product set to: ", product>>
    IN  /\ IF read.error # "none"
           THEN /\ state' = [state EXCEPT !.product = <<product>>]
                /\ lastCall' = Call("load_product_policies", product, read.error, FALSE)
                /\ UNCHANGED <<policies, chat_history, appended>>
           ELSE /\ state' = [product |-> <<product>>, last_compliance |-> Null,
                             previous_compliance |-> Null]
                /\ policies' = read.value
                /\ chat_history' = add_message(chat_history, "assistant", said)
                /\ appended' = Append(appended, Message("assistant", said))
                /\ lastCall' = Call("load_product_policies", product, "ok", FALSE)
        /\ UNCHANGED <<checks, comparison_text, pureVars>>

\* a newly loaded product forgets the last result and keeps the one before
load_product_policies_clears_last(product) ==
    LET read == read_product_policy_files(product)
        said == <<"Product set to: ", product>>
    IN  /\ IF read.error # "none"
           THEN /\ state' = [state EXCEPT !.product = <<product>>]
                /\ lastCall' = Call("load_product_policies", product, read.error, FALSE)
                /\ UNCHANGED <<policies, chat_history, appended>>
           ELSE /\ state' = [state EXCEPT !.product = <<product>>,
                                          !.last_compliance = Null]
                /\ policies' = read.value
                /\ chat_history' = add_message(chat_history, "assistant", said)
                /\ appended' = Append(appended, Message("assistant", said))
                /\ lastCall' = Call("load_product_policies", product, "ok", FALSE)
        /\ UNCHANGED <<checks, comparison_text, pureVars>>

load_product_policies(product) ==
    LET read == read_product_policy_files(product)
        said == <<"Product set to: ", product>>
    IN  /\ state' = [state EXCEPT !.product = <<product>>]
        /\ IF read.error # "none"
           THEN /\ lastCall' = Call("load_product_policies", product, read.error, FALSE)
                /\ UNCHANGED <<policies, chat_history, appended>>
           ELSE /\ policies' = read.value
                /\ chat_history' = add_message(chat_history, "assistant", said)
                /\ appended' = Append(appended, Message("assistant", said))
                /\ lastCall' = Call("load_product_policies", product, "ok", FALSE)
        /\ UNCHANGED <<checks, comparison_text, pureVars>>

\* the two assignments in the other order
update_semantic_memory_last_first(st, compliance) ==
    [st EXCEPT !.previous_compliance = <<compliance>>,
               !.last_compliance = <<compliance>>]

\* lines 155-157: previous := last, last := the new result
update_semantic_memory(st, compliance) ==
    [st EXCEPT !.previous_compliance = st.last_compliance,
               !.last_compliance = <<compliance>>]

FailedCheck(error, llm_called) ==
    /\ lastCall' = Call("run_compliance_check", "", error, llm_called)
    /\ UNCHANGED <<state, policies, chat_history, appended, checks, comparison_text, pureVars>>

\* previous_compliance is written before the response is normalised
run_compliance_check_writes_early(marketing_text, llm) ==
    IF state.product = Null
    THEN FailedCheck("ValueError: No product selected", FALSE)
    ELSE LET prompt == build_compliance_prompt(marketing_text, policies, strictness)
         IN  IF prompt.error # "none" THEN FailedCheck(prompt.error, FALSE)
    ELSE LET result == get_response_from_LLM(prompt.value[1], llm)
         IN  IF result.error # "none" THEN FailedCheck(result.error, TRUE)
    ELSE LET compliance == structure_compliance_grade(result.value[1])
             said == <<"Compliance check updated.">>
         IN  IF compliance.error # "none"
             THEN /\ state' = [state EXCEPT !.previous_compliance = state.last_compliance]
                  /\ lastCall' = Call("run_compliance_check", "", compliance.error, TRUE)
                  /\ UNCHANGED <<policies, chat_history, appended, checks,
                                 comparison_text, pureVars>>
    ELSE /\ state' = update_semantic_memory(state, compliance.value[1])
         /\ chat_history' = add_message(chat_history, "assistant", said)
         /\ appended' = Append(appended, Message("assistant", said))
         /\ checks' = Append(checks, compliance.value[1])
         /\ lastCall' = Call("run_compliance_check", "", "ok", TRUE)
         /\ UNCHANGED <<policies, comparison_text, pureVars>>

run_compliance_check(marketing_text, llm) ==
    IF state.product = Null
    THEN FailedCheck("ValueError: No product selected", FALSE)
    ELSE LET prompt == build_compliance_prompt(marketing_text, policies, strictness)
         IN  IF prompt.error # "none" THEN FailedCheck(prompt.error, FALSE)
    ELSE LET result == get_response_from_LLM(prompt.value[1], llm)
         IN  IF result.error # "none" THEN FailedCheck(result.error, TRUE)
    ELSE LET compliance == structure_compliance_grade(result.value[1])
             said == <<"Compliance check updated.">>
         IN  IF compliance.error # "none" THEN FailedCheck(compliance.error, TRUE)
    ELSE /\ state' = update_semantic_memory(state, compliance.value[1])
         /\ chat_history' = add_message(chat_history, "assistant", said)
         /\ appended' = Append(appended, Message("assistant", said))
         /\ checks' = Append(checks, compliance.value[1])
         /\ lastCall' = Call("run_compliance_check", "", "ok", TRUE)
         /\ UNCHANGED <<policies, comparison_text, pureVars>>

\* chatbot.py, get_chatbot_response: the comparison is built from the two
\* results of the long-term state, then the model is called
get_chatbot_response(llm, long_term_state) ==
    LET current == long_term_state.last_compliance
        previous == long_term_state.previous_compliance
        compared == compare_compliance(previous, current)
    IN  IF compared.error # "none"
        THEN [error |-> compared.error, value |-> Null, llm_called |-> FALSE,
              comparison_text |-> Null]
        ELSE IF llm.api # "ok"
        THEN [error |-> "APIError", value |-> Null, llm_called |-> TRUE,
              comparison_text |-> compared.value]
        ELSE [error |-> "none", value |-> <<llm.output_text>>, llm_called |-> TRUE,
              comparison_text |-> compared.value]

chat_bot_message(user_message, llm) ==
    LET asked == Message("user", <<user_message>>)
        with_user == add_message(chat_history, "user", <<user_message>>)
        reply == get_chatbot_response(llm, state)
    IN  /\ IF reply.error # "none"
           THEN /\ chat_history' = with_user
                /\ appended' = Append(appended, asked)
           ELSE /\ chat_history' = add_message(with_user, "assistant", <<reply.value[1]>>)
                /\ appended' = appended \o <<asked, Message("assistant", <<reply.value[1]>>)>>
        /\ lastCall' = Call("chat_bot_message", "",
                             IF reply.error = "none" THEN "ok" ELSE reply.error,
                             reply.llm_called)
        /\ comparison_text' = reply.comparison_text
        /\ UNCHANGED <<state, policies, checks, pureVars>>

(***************************************************************************)
(* The callers' inputs and the models' answers in a session.               *)
(***************************************************************************)
Roles == {"user", "assistant"}

Contents == { <<"hello">> }

Texts == {"sees clearly for 30 days"}

UserMessages == {"how do I fix it?"}

Graded(evals) == [api |-> "ok", json |-> "valid", doc |-> Response(evals)]

GradingAnswers ==
    { [api |-> "error", json |-> "valid", doc |-> NoEvaluations],
      [api |-> "ok", json |-> "invalid", doc |-> NoEvaluations],
      [api |-> "ok", json |-> "valid", doc |-> NoEvaluations],
      Graded(<<>>),
      Graded(<<Item(<<"fda", ":", "0">>, NotANumber)>>),
      Graded(<<Item(<<"fda", ":", "0">>, Num(50)), Item(<<"approved", ":", "0">>, Num(70))>>),
      Graded(<<Item(<<"fda", ":", "0">>, Num(95)), Item(<<"approved", ":", "0">>, Num(60))>>),
      Graded(<<Item(<<"fda0">>, Num(95))>>) }

ChatAnswers ==
    { [api |-> "error", output_text |-> ""],
      [api |-> "ok", output_text |-> "Rephrase the claim."] }

(***************************************************************************)
(* Spec: a session from construction, any call with any input.             *)
(***************************************************************************)
Init ==
    /\ Construct
    /\ raw = NoEvaluations
    /\ graded = Null
    /\ tables = Null
    /\ payload = Null
    /\ pair = Null
    /\ comparison = Null

Next ==
    \/ /\ Len(appended) < MaxAppended
       /\ \E role \in Roles, content \in Contents : AddMessageCall(role, content)
    \/ /\ Len(appended) < MaxAppended
       /\ \E product \in Products : load_product_policies(product)
    \/ /\ Len(appended) < MaxAppended
       /\ \E text \in Texts, llm \in GradingAnswers : run_compliance_check(text, llm)
    \/ /\ Len(appended) < MaxAppended
       /\ \E message \in UserMessages, llm \in ChatAnswers : chat_bot_message(message, llm)

Spec == Init /\ [][Next]_vars

(***************************************************************************)
(* SpecMem: a long session. The caller loads a product, runs two checks    *)
(* and chats until WarmUp messages have been appended; from then on any    *)
(* call with any input.                                                    *)
(***************************************************************************)
FirstAnswer ==
    Graded(<<Item(<<"fda", ":", "0">>, Num(50)), Item(<<"approved", ":", "0">>, Num(70))>>)

SecondAnswer ==
    Graded(<<Item(<<"fda", ":", "0">>, Num(95)), Item(<<"approved", ":", "0">>, Num(60))>>)

WarmUpCall ==
    /\ Len(appended) < WarmUp
    /\ IF state.product = Null THEN load_product_policies("ClareonPanOptix")
       ELSE IF Len(checks) = 0
            THEN run_compliance_check("sees clearly for 30 days", FirstAnswer)
       ELSE IF Len(checks) = 1
            THEN run_compliance_check("sees clearly for 30 days", SecondAnswer)
       ELSE chat_bot_message("how do I fix it?",
                             [api |-> "ok", output_text |-> "Rephrase the claim."])

NextMem ==
    \/ WarmUpCall
    \/ /\ WarmUp <= Len(appended) /\ Len(appended) < MaxMemAppended
       /\ \E role \in Roles, content \in Contents : AddMessageCall(role, content)
    \/ /\ WarmUp <= Len(appended) /\ Len(appended) < MaxMemAppended
       /\ \E product \in Products : load_product_policies(product)
    \/ /\ WarmUp <= Len(appended) /\ Len(appended) < MaxMemAppended
       /\ \E text \in Texts, llm \in GradingAnswers : run_compliance_check(text, llm)
    \/ /\ WarmUp <= Len(appended) /\ Len(appended) < MaxMemAppended
       /\ \E message \in UserMessages, llm \in ChatAnswers : chat_bot_message(message, llm)

SpecMem == Init /\ [][NextMem]_vars

(***************************************************************************)
(* SpecGrade: structure_compliance_grade applied to every response.        *)
(***************************************************************************)
InitGrade ==
    /\ Construct
    /\ raw \in Responses
    /\ graded = Null
    /\ tables = Null
    /\ payload = Null
    /\ pair = Null
    /\ comparison = Null

Grade ==
    /\ graded = Null
    /\ graded' = <<structure_compliance_grade(raw)>>
    /\ UNCHANGED <<raw, sessionVars, promptVars, compareVars>>

NextGrade == Grade

SpecGrade == InitGrade /\ [][NextGrade]_vars

(***************************************************************************)
(* SpecPrompt: build_compliance_prompt applied to every set of tables.     *)
(***************************************************************************)
Cells == {"claim a", "claim b", NaN}

PolicyTables == UNION { [1..n -> Cells] : n \in 0..MaxRows }

InitPrompt ==
    /\ Construct
    /\ raw = NoEvaluations
    /\ graded = Null
    /\ tables \in {Null} \cup
           { <<[approved |-> a, fda |-> f, ftc |-> t]>> :
                 a \in PolicyTables, f \in PolicyTables, t \in PolicyTables }
    /\ payload = Null
    /\ pair = Null
    /\ comparison = Null

BuildPrompt ==
    /\ payload = Null
    /\ payload' = <<build_compliance_prompt("sees clearly for 30 days", tables, strictness)>>
    /\ UNCHANGED <<tables, sessionVars, gradeVars, compareVars>>

NextPrompt == BuildPrompt

SpecPrompt == InitPrompt /\ [][NextPrompt]_vars

(***************************************************************************)
(* SpecCompare: compare_compliance applied to every pair of results.       *)
(***************************************************************************)
CompareIds ==
    { <<"approved", ":", "0">>, <<"fda", ":", "2">>, <<"fda", ":", "10">>,
      <<"ftc", ":", "0">> }

CompareGrades == { 40, 70, 75, 76, 95 }

CompareItems == { Item(id, Num(g)) : id \in CompareIds, g \in CompareGrades }

CompareLists ==
    { <<a>> : a \in CompareItems } \cup { <<a, b>> : a \in CompareItems, b \in CompareItems }

\* the results structure_compliance_grade returns for these lists
CompareResults == { structure_compliance_grade(Response(l)).value[1] : l \in CompareLists }

MaybeResult == {Null} \cup { <<A>> : A \in CompareResults }

InitCompare ==
    /\ Construct
    /\ raw = NoEvaluations
    /\ graded = Null
    /\ tables = Null
    /\ payload = Null
    /\ pair \in { [previous |-> p, current |-> c] : p \in MaybeResult, c \in MaybeResult }
    /\ comparison = Null

Compare ==
    /\ comparison = Null
    /\ comparison' = <<compare_compliance(pair.previous, pair.current)>>
    /\ UNCHANGED <<pair, sessionVars, gradeVars, promptVars>>

NextCompare == Compare

SpecCompare == InitCompare /\ [][NextCompare]_vars

(***************************************************************************)
(* Properties of the session.                                              *)
(***************************************************************************)

\* C1: the chat history never holds more than 10 entries; while at most 10
\* messages have been appended it holds all of them, and afterwards exactly
\* the 10 most recently appended ones, in the order they were appended.
MemoryCap ==
    /\ Len(chat_history) <= 10
    /\ Len(appended) <= 10 => chat_history = appended
    /\ Len(appended) > 10 =>
           chat_history = SubSeq(appended, Len(appended) - 9, Len(appended))

MemoryCapWitness ==
    /\ Len(appended) >= 12
    /\ Len(chat_history) = 10
    /\ chat_history[1] # appended[1]
    /\ lastCall.op = "run_compliance_check"
    /\ lastCall.outcome = "ok"

\* C2: previous_compliance and last_compliance are null before the first
\* successful check; after the first, last is its result and previous is still
\* null; after the k-th (k >= 2), last is the k-th result and previous the
\* (k-1)-th, that is the value last had just before the call.
CompliancePair ==
    LET k == Len(checks)
    IN  /\ k = 0 => state.last_compliance = Null /\ state.previous_compliance = Null
        /\ k = 1 => state.last_compliance = <<checks[1]>> /\ state.previous_compliance = Null
        /\ k >= 2 => /\ state.last_compliance = <<checks[k]>>
                     /\ state.previous_compliance = <<checks[k - 1]>>

CompliancePairWitness ==
    /\ Len(checks) = 2
    /\ checks[1] # checks[2]
    /\ lastCall.op = "run_compliance_check"
    /\ lastCall.outcome = "ok"

\* C3: a run_compliance_check that fails, at whichever step, leaves
\* last_compliance, previous_compliance and the chat history as they were.
FailedCheckKeepsMemory ==
    [][ (lastCall'.op = "run_compliance_check" /\ lastCall'.outcome # "ok")
            => UNCHANGED <<state, chat_history>> ]_vars

FailedCheckWitness ==
    /\ lastCall.op = "run_compliance_check"
    /\ lastCall.outcome = "TypeError: grade"
    /\ lastCall.llm_called
    /\ state.last_compliance # Null
    /\ chat_history # <<>>

\* C4: with no product set, run_compliance_check and chat_bot_message both
\* fail with the 'no product selected' error, without calling the model and
\* without changing the chat history or the compliance state.
NoProductRejected ==
    [][ (state.product = Null
            /\ lastCall'.op \in {"run_compliance_check", "chat_bot_message"})
            => /\ lastCall'.outcome = "ValueError: No product selected"
               /\ ~lastCall'.llm_called
               /\ UNCHANGED <<state, chat_history>> ]_vars

\* C10 as claimed: a successful load_product_policies makes state.product the
\* new product, leaves last_compliance and previous_compliance alone, and
\* removes no entry of the chat history.
ProductSetKeepsEveryEntry ==
    [][ (lastCall'.op = "load_product_policies" /\ lastCall'.outcome = "ok"
            /\ chat_history # <<>> /\ state.last_compliance # Null)
            => /\ state'.product = <<lastCall'.arg>>
               /\ state'.last_compliance = state.last_compliance
               /\ state'.previous_compliance = state.previous_compliance
               /\ Len(chat_history') >= Len(chat_history)
               /\ \A i \in 1..Len(chat_history) : chat_history'[i] = chat_history[i] ]_vars

\* C10: a successful load_product_policies makes state.product the new
\* product, leaves last_compliance and previous_compliance alone, and appends
\* "Product set to: <product>" to the chat history; every earlier entry stays,
\* except that the oldest one is evicted when the history already held 10.
ProductSetKeepsSession ==
    [][ (lastCall'.op = "load_product_policies" /\ lastCall'.outcome = "ok"
            /\ chat_history # <<>> /\ state.last_compliance # Null)
            => LET said == Message("assistant", <<"Product set to: ", lastCall'.arg>>)
               IN  /\ state'.product = <<lastCall'.arg>>
                   /\ state'.last_compliance = state.last_compliance
                   /\ state'.previous_compliance = state.previous_compliance
                   /\ Len(chat_history) < 10 => chat_history' = Append(chat_history, said)
                   /\ Len(chat_history) = 10 =>
                          chat_history' = Append(Tail(chat_history), said) ]_vars

ProductSetWitness ==
    /\ lastCall.op = "load_product_policies"
    /\ lastCall.outcome = "ok"
    /\ lastCall.arg = "TOTAL30"
    /\ state.product = <<"TOTAL30">>
    /\ state.previous_compliance # Null
    /\ Len(appended) >= 11
    /\ chat_history[10].content = <<"Product set to: ", "TOTAL30">>

(***************************************************************************)
(* Properties of structure_compliance_grade.                               *)
(***************************************************************************)
Returned == graded # Null /\ graded[1].error = "none"

Failed == graded # Null /\ graded[1].error # "none"

Result == graded[1].value[1]

\* the group of a raw item: the prefix of its policy_id before ":"
GroupOf(item) == SplitFirst(item.policy_id)

RawIndex(group) ==
    { i \in 1..Len(raw.evaluations) : GroupOf(raw.evaluations[i]) = <<group>> }

RawGrade(i) == raw.evaluations[i].grade.v

GradesInRange ==
    \A i \in 1..Len(raw.evaluations) :
        /\ raw.evaluations[i].grade.t = "number"
        /\ RawGrade(i) >= 0 /\ RawGrade(i) <= 100

RECURSIVE SumOver(_)
SumOver(S) ==
    IF S = {} THEN 0
    ELSE LET i == CHOOSE j \in S : TRUE IN RawGrade(i) + SumOver(S \ {i})

\* C5 as claimed: every item of filtered_evaluations is a non-approved item
\* whose grade is below 90, whatever the prefix of its policy_id (stated for
\* the responses whose grades are all numbers in [0, 100]).
FilteredBelowIgnore ==
    (Returned /\ GradesInRange) =>
        \A i \in 1..Len(Result.filtered_evaluations) :
            LET item == Result.filtered_evaluations[i]
            IN  GroupOf(item) # <<"approved">> /\ item.grade.v < 90

ClaimedTimesN(group) ==
    LET G == RawIndex(group)
        n == Cardinality(G)
        x == SumOver(G) - 100 * Cardinality({i \in G : RawGrade(i) < 70})
    IN  IF x < 0 THEN 0 ELSE IF x > 100 * n THEN 100 * n ELSE x

\* C7: the fda and the ftc score are 0 for a group without items and
\* otherwise clamp(mean - 100 * (grades below 70) / (grades), 0, 100); the
\* score is always within [0, 100].
CategoryScore ==
    Returned =>
        \A group \in {"fda", "ftc"} :
            LET score == Result.scores[group]
                n == Cardinality(RawIndex(group))
            IN  /\ score.den > 0
                /\ score.num >= 0 /\ score.num <= 100 * score.den
                /\ n = 0 => score.num = 0
                /\ n > 0 => score.num * n = ClaimedTimesN(group) * score.den

CategoryScoreWitness ==
    /\ Returned
    /\ Len(raw.evaluations) = 2
    /\ RawIndex("fda") = {1, 2}
    /\ RawGrade(1) = 50 /\ RawGrade(2) = 90
    /\ Result.scores.fda = [num |-> 20, den |-> 1]
    /\ Result.scores.ftc = [num |-> 0, den |-> 1]

Decomposes(id) ==
    /\ Len(id) = 3
    /\ id[1] \in {"approved", "fda", "ftc"}
    /\ id[2] = ":"
    /\ id[3] # ":"

IdsDecompose ==
    \A i \in 1..Len(raw.evaluations) : Decomposes(raw.evaluations[i].policy_id)

\* C8 as claimed: structure_compliance_grade fails whenever some item's grade
\* is not a number in [0, 100] (stated for the responses whose policy ids
\* are all of the form '<group>:<index>').
BadGradeRejected ==
    (graded # Null /\ raw.has_evaluations /\ IdsDecompose /\ ~GradesInRange) => Failed

\* C9 as claimed: structure_compliance_grade fails whenever 'evaluations' is
\* missing or some item's policy_id is not '<group>:<index>' with group one
\* of approved, fda, ftc (stated for the responses whose grades are all
\* numbers in [0, 100]).
BadPolicyIdRejected ==
    ( /\ graded # Null
      /\ GradesInRange
      /\ ~raw.has_evaluations \/ ~IdsDecompose )
        => Failed

(***************************************************************************)
(* Properties of build_compliance_prompt.                                  *)
(***************************************************************************)
Built == payload # Null /\ payload[1].error = "none"

Payload == payload[1].value[1]

Groups == {"approved", "fda", "ftc"}

\* the rows of a table that have a text
KeptRows(table) == { j \in 1..Len(table) : table[j] # NaN }

\* the i-th row, from the top, among the rows that have a text
KeptRow(table, i) ==
    CHOOSE j \in KeptRows(table) : Cardinality({ k \in KeptRows(table) : k <= j }) = i

\* C11 as claimed: the rows without text are dropped, and each remaining row
\* has the id '<group>:<n>' with n its 0-based position among the remaining
\* rows, so that the ids of a group are 0, 1, ..., k-1.
IdsCountKeptRows ==
    Built =>
        \A group \in Groups :
            LET table == tables[1][group]
                records == Payload[group]
            IN  /\ Len(records) = Cardinality(KeptRows(table))
                /\ \A i \in 1..Len(records) :
                       /\ records[i].text = table[KeptRow(table, i)]
                       /\ records[i].policy_id = <<group, ":", ToString(i - 1)>>

\* C11: the rows without text are dropped, and each remaining row has the id
\* '<group>:<n>' with n its 0-based position in the table as loaded, before
\* any row is dropped; the ids of a group are increasing and unique, with a
\* gap wherever a row was dropped.
IdsCountTableRows ==
    Built =>
        \A group \in Groups :
            LET table == tables[1][group]
                records == Payload[group]
            IN  /\ Len(records) = Cardinality(KeptRows(table))
                /\ \A i \in 1..Len(records) :
                       /\ records[i].text = table[KeptRow(table, i)]
                       /\ records[i].policy_id =
                              <<group, ":", ToString(KeptRow(table, i) - 1)>>
                /\ \A i, j \in 1..Len(records) :
                       i # j => records[i].policy_id # records[j].policy_id

IdsWitness ==
    /\ Built
    /\ tables[1].fda = <<NaN, "claim a">>
    /\ Payload.fda = <<[policy_id |-> <<"fda", ":", "1">>, text |-> "claim a"]>>
    /\ Payload.approved = <<>>

(***************************************************************************)
(* Properties of compare_compliance.                                       *)
(***************************************************************************)
Compared == comparison # Null /\ comparison[1].error = "none"

BothGiven == pair.previous # Null /\ pair.current # Null

Text == comparison[1].value[1]

Prev == pair.previous[1]

Curr == pair.current[1]

LinesOf(kind, cat) == { i \in 1..Len(Text) : Text[i].kind = kind /\ Text[i].cat = cat }

\* the score of a category as numerator and denominator
NumOf(result, cat) ==
    IF cat = "approved" THEN result.scores.approved ELSE result.scores[cat].num

DenOf(result, cat) ==
    IF cat = "approved" THEN 1 ELSE result.scores[cat].den

\* current - previous > by, for the scores of a category
RisesByMoreThan(cat, by) ==
    NumOf(Curr, cat) * DenOf(Prev, cat) - NumOf(Prev, cat) * DenOf(Curr, cat)
        > by * DenOf(Curr, cat) * DenOf(Prev, cat)

\* previous - current > by, for the scores of a category
FallsByMoreThan(cat, by) ==
    NumOf(Prev, cat) * DenOf(Curr, cat) - NumOf(Curr, cat) * DenOf(Prev, cat)
        > by * DenOf(Curr, cat) * DenOf(Prev, cat)

\* C12: for a non-null previous, each of approved, fda, ftc has an 'improved'
\* line iff current - previous > 5 and a 'decreased' line iff
\* current - previous < -5, and no line when the difference is within 5.
ScoreLines ==
    (Compared /\ BothGiven) =>
        \A cat \in Groups :
            LET improved == LinesOf("score improved", Upper(cat))
                decreased == LinesOf("score decreased", Upper(cat))
            IN  /\ improved # {} <=> RisesByMoreThan(cat, 5)
                /\ decreased # {} <=> FallsByMoreThan(cat, 5)
                /\ Cardinality(improved) + Cardinality(decreased) <= 1

ScoreLinesWitness ==
    /\ Compared /\ BothGiven
    /\ Prev.scores.approved = 70 /\ Curr.scores.approved = 75
    /\ LinesOf("score improved", "APPROVED") = {}
    /\ Prev.scores.fda = [num |-> 76, den |-> 1]
    /\ Curr.scores.fda = [num |-> 70, den |-> 1]
    /\ \E i \in LinesOf("score decreased", "FDA") : Text[i].tenths = 0 - 60

IssueIds(result) ==
    { result.filtered_evaluations[i].policy_id : i \in 1..Len(result.filtered_evaluations) }

\* the line lists exactly the ids of S, each once, in ascending string order
Lists(line, S) ==
    /\ { line.ids[i] : i \in 1..Len(line.ids) } = S
    /\ Len(line.ids) = Cardinality(S)
    /\ \A i \in 1..(Len(line.ids) - 1) : StrLess(line.ids[i], line.ids[i + 1])

\* C13: for a non-null previous there is a 'new issues' line iff some id is
\* in current's filtered list and not in previous's, and it lists exactly
\* those ids in ascending order; likewise a 'resolved' line for the ids in
\* previous's filtered list and not in current's.
IssueLines ==
    (Compared /\ BothGiven) =>
        LET added == IssueIds(Curr) \ IssueIds(Prev)
            removed == IssueIds(Prev) \ IssueIds(Curr)
            new == LinesOf("New compliance issues detected", "")
            resolved == LinesOf("Issues resolved", "")
        IN  /\ new # {} <=> added # {}
            /\ resolved # {} <=> removed # {}
            /\ Cardinality(new) <= 1 /\ Cardinality(resolved) <= 1
            /\ \A i \in new : Lists(Text[i], added)
            /\ \A i \in resolved : Lists(Text[i], removed)

IssueLinesWitness ==
    /\ Compared /\ BothGiven
    /\ IssueIds(Prev) = { <<"ftc", ":", "0">> }
    /\ IssueIds(Curr) = { <<"fda", ":", "2">>, <<"fda", ":", "10">> }
    /\ \E i \in LinesOf("New compliance issues detected", "") :
           Text[i].ids = << <<"fda", ":", "10">>, <<"fda", ":", "2">> >>
    /\ \E i \in LinesOf("Issues resolved", "") : Text[i].ids = << <<"ftc", ":", "0">> >>

\* C14: compare_compliance(A, A) is exactly "Compliance is unchanged." for
\* every result A of structure_compliance_grade.
SameResultUnchanged ==
    (comparison # Null /\ pair.previous # Null /\ pair.previous = pair.current)
        => Compared /\ Text = UnchangedText

SameResultWitness ==
    /\ Compared
    /\ pair.previous # Null /\ pair.previous = pair.current
    /\ Curr.filtered_evaluations # <<>>
    /\ Curr.scores.fda.den = 2
    /\ Text = UnchangedText

\* C14, in a session: after two successful checks in a row that gave the
\* same result, the comparison a chat hands to the model is "Compliance is
\* unchanged.".
SameCheckTwiceUnchanged ==
    ( /\ lastCall.op = "chat_bot_message"
      /\ lastCall.llm_called
      /\ state.previous_compliance # Null
      /\ state.previous_compliance = state.last_compliance )
        => comparison_text = <<UnchangedText>>

SameCheckTwiceWitness ==
    /\ lastCall.op = "chat_bot_message"
    /\ lastCall.outcome = "ok"
    /\ state.previous_compliance # Null
    /\ state.previous_compliance = state.last_compliance
    /\ comparison_text = <<UnchangedText>>

(***************************************************************************)
(* Properties of the long-term state across calls.                         *)
(***************************************************************************)

\* C15: in every reachable session state a non-null previous_compliance
\* comes with a non-null last_compliance, and no chat_bot_message call fails
\* in compare_compliance on a null current result.
PreviousImpliesLast ==
    /\ state.previous_compliance # Null => state.last_compliance # Null
    /\ lastCall.outcome # "AttributeError: NoneType has no attribute get"

PreviousImpliesLastWitness ==
    /\ state.previous_compliance # Null
    /\ state.last_compliance # Null
    /\ state.previous_compliance # state.last_compliance
    /\ lastCall.op = "chat_bot_message"
    /\ lastCall.outcome = "ok"
    /\ comparison_text # Null
    /\ comparison_text # <<FirstCheckText>>

\* C16: state.product is non-null only if the policy tables held by the
\* controller are the ones loaded for that product.
ProductHasItsPolicies ==
    state.product # Null =>
        /\ state.product[1] \in DOMAIN compliance_docs
        /\ policies = <<compliance_docs[state.product[1]]>>

====
